---- MODULE Spec2Model ----
(***************************************************************************)
(* Expense tracker (MERN): the Express/Mongoose backend of                 *)
(* backend/server.js as a state machine.  The state is the two MongoDB     *)
(* collections (users, expenses) and the outcome of the request handled   *)
(* last; the server clock is an input of the request that reads it.  Every *)
(* route is one action; the route's handler is an operator of the          *)
(* request's inputs and the current collections that yields the HTTP       *)
(* status, the store calls made, and the new collections.                  *)
(*                                                                         *)
(* The React dashboard of one browser (the Dashboard component) is the     *)
(* second half of the state: its useState values, the useMemo cache of     *)
(* currentMonthTotal, the browser clock, the balance card as rendered      *)
(* last, and the requests it has in flight.  A request is served by the    *)
(* route's handler at one moment and its continuation runs in the browser  *)
(* at a later one; requests complete in any order.                         *)
(*                                                                         *)
(* Strings that the code formats, tests or parses (the month label) are    *)
(* sequences of one-character strings.  A stored Date is modelled by its   *)
(* UTC calendar components, which is what $year, $month and $dayOfMonth    *)
(* read from it; amounts and incomes are integers.                         *)
(***************************************************************************)
EXTENDS Integers, Sequences, FiniteSets

\* ---- bounds of the model ------------------------------------------------
MaxExpenses == 2        \* expense documents ever created

\* ---- JavaScript values ----------------------------------------------------
\* A JSON body field: a number, a string, or absent (undefined).
Num(k) == [t |-> "number", n |-> k, s |-> ""]
Str(x) == [t |-> "string", n |-> 0, s |-> x]
Undef == [t |-> "undefined", n |-> 0, s |-> ""]

\* A calendar date (UTC components of a Date value).
Date(y, m, d) == [year |-> y, month |-> m, day |-> d]

\* Timestamp order of two dates.
DateLess(a, b) ==
    \/ a.year < b.year
    \/ a.year = b.year /\ a.month < b.month
    \/ a.year = b.year /\ a.month = b.month /\ a.day < b.day

\* The date field of a request body: absent, unparsable, or a date.
NoDate == [t |-> "undefined", d |-> Date(0, 1, 1)]
BadDate == [t |-> "invalid", d |-> Date(0, 1, 1)]
IsoDate(y, m, d) == [t |-> "date", d |-> Date(y, m, d)]

\* ---- strings as character sequences -------------------------------------
DigitChars == <<"0", "1", "2", "3", "4", "5", "6", "7", "8", "9">>
DigitSet == {DigitChars[i] : i \in 1..10}

\* String(n) for a non-negative integer n: its decimal digits.
RECURSIVE NumToString(_)
NumToString(n) ==
    IF n < 10 THEN <<DigitChars[n + 1]>>
    ELSE NumToString(n \div 10) \o <<DigitChars[(n % 10) + 1]>>

\* String.prototype.padStart(len, ch)
RECURSIVE PadStart(_, _, _)
PadStart(s, len, ch) ==
    IF Len(s) >= len THEN s ELSE PadStart(<<ch>> \o s, len, ch)

\* Value of a digit character.
DigitVal(c) == CHOOSE i \in 0..9 : DigitChars[i + 1] = c

\* parseInt of the first n characters of a string of digits.
RECURSIVE ParseDigits(_, _)
ParseDigits(s, n) ==
    IF n = 0 THEN 0 ELSE 10 * ParseDigits(s, n - 1) + DigitVal(s[n])

\* parseInt(s) for a string of digits.
ParseInt(s) == ParseDigits(s, Len(s))

\* A pattern that asks for the digits but not for the hyphen: /^\d{4}.\d{2}$/.
MonthRegexAnySeparator(s) ==
    /\ Len(s) = 7
    /\ \A i \in {1, 2, 3, 4, 6, 7} : s[i] \in DigitSet

\* /^\d{4}-\d{2}$/.test(s)
MonthRegex(s) ==
    /\ Len(s) = 7
    /\ \A i \in {1, 2, 3, 4, 6, 7} : s[i] \in DigitSet
    /\ s[5] = "-"

\* A query parameter: absent, or a string.
NoParam == [def |-> FALSE, s |-> <<>>]
Param(s) == [def |-> TRUE, s |-> s]

\* ---- state --------------------------------------------------------------
VARIABLES
    users,      \* the User collection: documents [id, name, email, password, monthlyIncome]
    expenses,   \* the Expense collection: documents [id, user, title, amount, category, date]
    nextId,     \* number of Expense documents created so far (ids are never reused)
    last,       \* the request handled last: [op, user, status, calls]
    token,      \* localStorage 'token' of the browser (NoToken: no dashboard mounted)
    dashboard,  \* the useState values of Dashboard: [expenses, monthlyIncome,
                \*   monthlyData, selectedMonth, dailyData]
    memo,       \* the value useMemo holds for currentMonthTotal
    now,        \* position of the browser clock in ClientClock
    shown,      \* the balance card as rendered last: [at, total, balance, class]
    requests    \* the requests of the dashboard that are in flight, in call order

server == <<users, expenses, nextId, last>>
client == <<token, dashboard, memo, now, shown, requests>>
vars == <<users, expenses, nextId, last, token, dashboard, memo, now, shown, requests>>

\* ---- inputs the requests are drawn from ----------------------------------
Emails == {"ann@x", "bob@x"}
Names == {Str("n"), Undef}
Passwords == {"pw", "other"}
Clock == {Date(2024, 2, 1)}      \* what new Date() returns while the requests are served
DateInputs == {IsoDate(999, 12, 5), IsoDate(2024, 1, 5), IsoDate(2024, 1, 20), NoDate}
AmountInputs == {Num(-5), Num(100)}
IncomeInputs == {Num(-5), Num(0), Num(300), Num(1000), Str("300"), Undef}
ValidBodies ==
    [title : {Str("Rent")}, amount : AmountInputs, category : {Str("Food")},
     date : DateInputs]
MalformedBodies ==
    {[title |-> Undef, amount |-> Num(100), category |-> Str("Food"), date |-> NoDate],
     [title |-> Str(""), amount |-> Num(100), category |-> Str("Food"), date |-> NoDate],
     [title |-> Str("Rent"), amount |-> Undef, category |-> Str("Food"), date |-> NoDate],
     [title |-> Str("Rent"), amount |-> Num(100), category |-> Undef, date |-> NoDate],
     [title |-> Str("Rent"), amount |-> Num(100), category |-> Str("Misc"), date |-> NoDate],
     [title |-> Str("Rent"), amount |-> Num(100), category |-> Str("Food"), date |-> BadDate]}
ExpenseBodies == ValidBodies \cup MalformedBodies
MonthInputs ==
    {NoParam, Param(<<>>), Param(<<"2", "0", "2", "4", "-", "1">>),
     Param(<<"2", "0", "2", "4", "/", "0", "1">>),
     Param(<<"9", "9", "9", "-", "1", "2">>),
     Param(<<"2", "0", "2", "4", "-", "0", "1">>),
     Param(<<"2", "0", "2", "4", "-", "0", "2">>),
     Param(<<"0", "9", "9", "9", "-", "1", "2">>)}

\* ---- schemas ------------------------------------------------------------
Categories == {"Food", "Travel", "Bills", "Other"}

\* bcrypt.hash / bcrypt.compare
Hash(pw) == <<"bcrypt", pw>>
Compare(pw, hashed) == Hash(pw) = hashed

\* Mongoose validation of a new User document (all three fields required).
UserSchema(name, email, password) ==
    /\ name.t = "string" /\ name.s # ""
    /\ email # ""
    /\ password # ""

\* Mongoose validation of a new Expense document: title, amount and category
\* are required, category is one of the enum, the date must be a valid Date.
ExpenseSchema(body) ==
    /\ body.title.t = "string" /\ body.title.s # ""
    /\ body.amount.t = "number"
    /\ body.category.t = "string" /\ body.category.s \in Categories
    /\ body.date.t # "invalid"

\* ---- authentication -----------------------------------------------------
\* The Authorization header: absent, a token that jwt.verify rejects, or a
\* token generateToken signed for a user id.
NoToken == [kind |-> "none", id |-> 0]
BadToken == [kind |-> "bad", id |-> 0]
generateToken(id) == [kind |-> "jwt", id |-> id]
Tokens == {NoToken, BadToken} \cup {generateToken(u.id) : u \in users}

UserIds == {u.id : u \in users}
UserById(id) == CHOOSE u \in users : u.id = id

\* protect: the user the request runs as, or the 401 it ends with.
protect(auth) ==
    IF auth.kind = "none" THEN [ok |-> FALSE, user |-> 0, status |-> 401, calls |-> <<>>]
    ELSE IF auth.kind = "bad" THEN
        [ok |-> FALSE, user |-> 0, status |-> 401, calls |-> <<>>]
    ELSE IF auth.id \notin UserIds THEN
        [ok |-> FALSE, user |-> 0, status |-> 401, calls |-> <<"User.findById">>]
    ELSE [ok |-> TRUE, user |-> auth.id, status |-> 200, calls |-> <<"User.findById">>]

\* ---- the aggregation pipelines ------------------------------------------
\* Each stage is an operator of the documents it is given; the routes run
\* the pipelines on the Expense collection.

\* A pipeline without its $match stage: every user's documents.
MatchEveryone(coll, owner) == coll

\* { $match: { user: ObjectId(req.user.id) } }
Match(coll, owner) == {e \in coll : e.user = owner}

\* A pipeline that counts the documents of a group ({ $sum: 1 }) instead of
\* adding their amounts.
SumAmountCounting(docs) == Cardinality(docs)

\* { $sum: '$amount' } over a group of documents
RECURSIVE SumAmount(_)
SumAmount(docs) ==
    IF docs = {} THEN 0
    ELSE LET e == CHOOSE x \in docs : TRUE
         IN  e.amount + SumAmount(docs \ {e})

\* _id: { year: { $year: '$date' }, month: { $month: '$date' } }
MonthKey(e) == [year |-> e.date.year, month |-> e.date.month]

\* $group by MonthKey with total: { $sum: '$amount' }
GroupByMonth(docs) ==
    {[key |-> k, total |-> SumAmount({e \in docs : MonthKey(e) = k})] :
        k \in {MonthKey(e) : e \in docs}}

\* A sort whose keys are swapped: { '_id.month': 1, '_id.year': 1 }.
MonthBeforeSwapped(a, b) ==
    \/ a.key.month < b.key.month
    \/ a.key.month = b.key.month /\ a.key.year < b.key.year

\* { $sort: { '_id.year': 1, '_id.month': 1 } }
MonthBefore(a, b) ==
    \/ a.key.year < b.key.year
    \/ a.key.year = b.key.year /\ a.key.month < b.key.month

RECURSIVE SortMonths(_)
SortMonths(groups) ==
    IF groups = {} THEN <<>>
    ELSE LET first == CHOOSE g \in groups : \A h \in groups \ {g} : MonthBefore(g, h)
         IN  <<first>> \o SortMonths(groups \ {first})

\* `${item._id.year}-${String(item._id.month).padStart(2, '0')}`
FormatLabel(key) ==
    NumToString(key.year) \o <<"-">> \o PadStart(NumToString(key.month), 2, "0")

\* monthlyData: the result of the $match, $group, $sort pipeline.
MonthlyPipeline(coll, owner) == SortMonths(GroupByMonth(Match(coll, owner)))

\* formattedData: the body of GET /api/expenses/summary/monthly.
MonthlyData(coll, owner) ==
    LET monthlyData == MonthlyPipeline(coll, owner)
    IN  [i \in 1..Len(monthlyData) |->
            [label |-> FormatLabel(monthlyData[i].key), total |-> monthlyData[i].total]]

\* $match of the daily pipeline: the owner's documents of (year, monthNum)
MatchMonth(coll, owner, year, monthNum) ==
    {e \in coll :
        e.user = owner /\ e.date.year = year /\ e.date.month = monthNum}

\* $group by { $dayOfMonth: '$date' } with total: { $sum: '$amount' }
GroupByDay(docs) ==
    {[day |-> d, total |-> SumAmount({e \in docs : e.date.day = d})] :
        d \in {e.date.day : e \in docs}}

\* { $sort: { '_id': 1 } }
RECURSIVE SortDays(_)
SortDays(groups) ==
    IF groups = {} THEN <<>>
    ELSE LET first == CHOOSE g \in groups : \A h \in groups \ {g} : g.day < h.day
         IN  <<first>> \o SortDays(groups \ {first})

\* The position of the first hyphen of s at or after position i (Len(s) + 1
\* when there is none).
RECURSIVE DashFrom(_, _)
DashFrom(s, i) ==
    IF i > Len(s) \/ s[i] = "-" THEN i ELSE DashFrom(s, i + 1)

\* month.split('-')[0] and [1]: the text before the first hyphen, and the
\* text between the first hyphen and the next one (or the end).
SplitDash0(s) == SubSeq(s, 1, DashFrom(s, 1) - 1)
SplitDash1(s) == SubSeq(s, DashFrom(s, 1) + 1, DashFrom(s, DashFrom(s, 1) + 1) - 1)

\* The body of GET /api/expenses/summary/daily?month=... once month is valid.
DailyData(coll, owner, month) ==
    LET year == ParseInt(SplitDash0(month))
        monthNum == ParseInt(SplitDash1(month))
    IN  [month |-> month, days |-> SortDays(GroupByDay(MatchMonth(coll, owner, year, monthNum)))]

\* Expense.find({ user }).sort({ date: -1 }): every order of the owner's
\* documents that is descending by date (the order of equal dates is the
\* store's choice).
RECURSIVE Orders(_)
Orders(docs) ==
    IF docs = {} THEN {<<>>}
    ELSE UNION {{<<e>> \o rest : rest \in Orders(docs \ {e})} : e \in docs}

FindSorted(coll, owner) ==
    {s \in Orders(Match(coll, owner)) :
        \A i, j \in 1..Len(s) : i < j => ~DateLess(s[i].date, s[j].date)}

\* ---- route handlers -----------------------------------------------------
\* What a handler does with a request: the HTTP status it answers, the user
\* it ran as (0: none), the store calls it made in order, the JSON body, and
\* the collections it leaves.
Reply(status, user, calls, body, us, es) ==
    [status |-> status, user |-> user, calls |-> calls, body |-> body,
     users |-> us, expenses |-> es]

\* POST /api/auth/register
register(name, email, password) ==
    IF \E u \in users : u.email = email
    THEN Reply(400, 0, <<"User.findOne">>, <<>>, users, expenses)
    ELSE IF ~UserSchema(name, email, password)
    THEN Reply(500, 0, <<"User.findOne">>, <<>>, users, expenses)
    ELSE LET user == [id |-> Cardinality(users) + 1, name |-> name.s, email |-> email,
                      password |-> Hash(password), monthlyIncome |-> 0]
         IN  Reply(201, 0, <<"User.findOne", "User.create">>,
                   <<generateToken(user.id)>>, users \cup {user}, expenses)

\* POST /api/auth/login
login(email, password) ==
    IF \E u \in users : u.email = email /\ Compare(password, u.password)
    THEN LET user == CHOOSE u \in users : u.email = email
         IN  Reply(200, 0, <<"User.findOne">>, <<generateToken(user.id)>>, users, expenses)
    ELSE Reply(401, 0, <<"User.findOne">>, <<>>, users, expenses)

\* POST /api/expenses
createExpense(auth, body, today) ==
    LET p == protect(auth)
        date == IF body.date.t = "undefined" THEN today ELSE body.date.d
        newExpense == [id |-> nextId + 1, user |-> p.user, title |-> body.title.s,
                       amount |-> body.amount.n, category |-> body.category.s,
                       date |-> date]
    IN  IF ~p.ok THEN Reply(p.status, 0, p.calls, <<>>, users, expenses)
        ELSE IF ~ExpenseSchema(body)
        THEN Reply(500, p.user, p.calls, <<>>, users, expenses)
        ELSE Reply(201, p.user, p.calls \o <<"Expense.save">>, <<newExpense>>,
                   users, expenses \cup {newExpense})

\* GET /api/expenses
listExpenses(auth) ==
    LET p == protect(auth)
    IN  IF ~p.ok THEN Reply(p.status, 0, p.calls, <<>>, users, expenses)
        ELSE Reply(200, p.user, p.calls \o <<"Expense.find">>, FindSorted(expenses, p.user),
                   users, expenses)

\* A delete route that does not compare the owner.
OwnsAnyone(expense, user) == TRUE

\* expense.user.toString() === req.user.id
Owns(expense, user) == expense.user = user

\* DELETE /api/expenses/:id
deleteExpense(auth, id) ==
    LET p == protect(auth)
    IN  IF ~p.ok THEN Reply(p.status, 0, p.calls, <<>>, users, expenses)
        ELSE IF ~\E e \in expenses : e.id = id
        THEN Reply(404, p.user, p.calls \o <<"Expense.findById">>, <<>>, users, expenses)
        ELSE LET expense == CHOOSE e \in expenses : e.id = id
             IN  IF ~Owns(expense, p.user)
                 THEN Reply(401, p.user, p.calls \o <<"Expense.findById">>, <<>>,
                            users, expenses)
                 ELSE Reply(200, p.user,
                            p.calls \o <<"Expense.findById", "Expense.findByIdAndDelete">>,
                            <<>>, users, {e \in expenses : e.id # id})

\* GET /api/expenses/summary/monthly
monthlySummary(auth) ==
    LET p == protect(auth)
    IN  IF ~p.ok THEN Reply(p.status, 0, p.calls, <<>>, users, expenses)
        ELSE Reply(200, p.user, p.calls \o <<"Expense.aggregate">>, MonthlyData(expenses, p.user),
                   users, expenses)

\* GET /api/expenses/summary/daily?month=YYYY-MM
dailySummary(auth, month) ==
    LET p == protect(auth)
    IN  IF ~p.ok THEN Reply(p.status, 0, p.calls, <<>>, users, expenses)
        ELSE IF ~month.def \/ month.s = <<>> \/ ~MonthRegex(month.s)
        THEN Reply(400, p.user, p.calls, <<>>, users, expenses)
        ELSE Reply(200, p.user, p.calls \o <<"Expense.aggregate">>,
                   DailyData(expenses, p.user, month.s), users, expenses)

\* GET /api/user/income
getIncome(auth) ==
    LET p == protect(auth)
    IN  IF ~p.ok THEN Reply(p.status, 0, p.calls, <<>>, users, expenses)
        ELSE IF p.user \notin UserIds
        THEN Reply(404, p.user, p.calls \o <<"User.findById">>, <<>>, users, expenses)
        ELSE Reply(200, p.user, p.calls \o <<"User.findById">>,
                   <<UserById(p.user).monthlyIncome>>, users, expenses)

\* An income check that forgets the sign: typeof income !== 'number'.
InvalidIncomeTypeOnly(income) == income.t # "number"

\* typeof income !== 'number' || income < 0
InvalidIncome(income) == income.t # "number" \/ income.n < 0

\* POST /api/user/income
setIncome(auth, income) ==
    LET p == protect(auth)
    IN  IF ~p.ok THEN Reply(p.status, 0, p.calls, <<>>, users, expenses)
        ELSE IF InvalidIncome(income)
        THEN Reply(400, p.user, p.calls, <<>>, users, expenses)
        ELSE IF p.user \notin UserIds
        THEN Reply(404, p.user, p.calls \o <<"User.findById">>, <<>>, users, expenses)
        ELSE LET user == UserById(p.user)
                 saved == [user EXCEPT !.monthlyIncome = income.n]
             IN  Reply(200, p.user, p.calls \o <<"User.findById", "User.save">>,
                       <<saved.monthlyIncome>>, (users \ {user}) \cup {saved}, expenses)

\* ---- the state machine --------------------------------------------------
NoRequest == [op |-> "none", user |-> 0, status |-> 0, calls |-> <<>>]

\* The dashboard before it is mounted: the initial values of its useState
\* calls, and nothing rendered.
NotMounted ==
    [expenses |-> <<>>, monthlyIncome |-> 0, monthlyData |-> <<>>,
     selectedMonth |-> <<>>, dailyData |-> <<>>]
NothingShown == [at |-> 1, total |-> 0, balance |-> 0, class |-> "balance-positive"]

Init ==
    /\ users = {}
    /\ expenses = {}
    /\ nextId = 0
    /\ last = NoRequest
    /\ token = NoToken
    /\ dashboard = NotMounted
    /\ memo = 0
    /\ now = 1
    /\ shown = NothingShown
    /\ requests = <<>>

\* The server handles one request: its reply decides the next collections.
\* (The body of a reply is a function of the request and the collections, so
\* it is not kept in the state.)
Effect(op, r) ==
    /\ users' = r.users
    /\ expenses' = r.expenses
    /\ nextId' = nextId + Cardinality(r.expenses \ expenses)
    /\ last' = [op |-> op, user |-> r.user, status |-> r.status, calls |-> r.calls]

\* A request of some other client: the dashboard does not see it.
Handle(op, r) == Effect(op, r) /\ UNCHANGED client

Register ==
    \E name \in Names, email \in Emails : Handle("register", register(name, email, "pw"))

Login ==
    \E email \in Emails, password \in Passwords : Handle("login", login(email, password))

CreateExpense ==
    /\ nextId < MaxExpenses
    /\ \E auth \in Tokens, body \in ExpenseBodies, today \in Clock :
          Handle("createExpense", createExpense(auth, body, today))

ListExpenses ==
    \E auth \in Tokens : Handle("listExpenses", listExpenses(auth))

DeleteExpense ==
    \E auth \in Tokens, id \in 1..MaxExpenses :
        Handle("deleteExpense", deleteExpense(auth, id))

MonthlySummary ==
    \E auth \in Tokens : Handle("monthlySummary", monthlySummary(auth))

DailySummary ==
    \E auth \in Tokens, month \in MonthInputs :
        Handle("dailySummary", dailySummary(auth, month))

GetIncome ==
    \E auth \in Tokens : Handle("getIncome", getIncome(auth))

SetIncome ==
    \E auth \in Tokens, income \in IncomeInputs :
        Handle("setIncome", setIncome(auth, income))

Next ==
    \/ Register
    \/ Login
    \/ CreateExpense
    \/ ListExpenses
    \/ DeleteExpense
    \/ MonthlySummary
    \/ DailySummary
    \/ GetIncome
    \/ SetIncome

Spec == Init /\ [][Next]_vars

\* The expense routes never read monthlyIncome and the account routes never
\* read or write the Expense collection, so each family is also explored on
\* its own.
NextExpenses ==
    \/ Register
    \/ CreateExpense
    \/ ListExpenses
    \/ DeleteExpense
    \/ MonthlySummary
    \/ DailySummary

SpecExpenses == Init /\ [][NextExpenses]_vars

NextAccount ==
    \/ Register
    \/ Login
    \/ GetIncome
    \/ SetIncome

SpecAccount == Init /\ [][NextAccount]_vars

\* ---- what the claims speak of, stated without the pipelines --------------
\* The documents owned by a user, and those of one calendar month.
OwnedBy(owner) == {e \in expenses : e.user = owner}
OwnedIn(owner, year, month) ==
    {e \in OwnedBy(owner) : e.date.year = year /\ e.date.month = month}

\* The sum of the amounts of a set of documents, taken in id order.
RECURSIVE AmountsUpTo(_, _)
AmountsUpTo(docs, n) ==
    IF n = 0 THEN 0
    ELSE AmountsUpTo(docs, n - 1)
            + (IF \E e \in docs : e.id = n THEN (CHOOSE e \in docs : e.id = n).amount ELSE 0)

AmountsOf(docs) == AmountsUpTo(docs, nextId)

\* The sum of the totals of a sequence of buckets.
RECURSIVE TotalsOf(_)
TotalsOf(buckets) ==
    IF Len(buckets) = 0 THEN 0 ELSE buckets[1].total + TotalsOf(Tail(buckets))

\* C1: in every reachable store state and for every owner, the totals of the
\* buckets monthlySummary returns add up to the sum of the amounts of the
\* owner's expense records.
C1_MonthlyTotalsSumToOwned ==
    \A o \in UserIds :
        LET r == monthlySummary(generateToken(o))
        IN  r.status = 200 /\ TotalsOf(r.body) = AmountsOf(OwnedBy(o))

\* C1 witness: a monthly summary was served to an owner of two records, one
\* of them with a negative amount.
C1_Witness ==
    /\ last.op = "monthlySummary" /\ last.status = 200
    /\ Cardinality(OwnedBy(last.user)) = 2
    /\ Len(MonthlyData(expenses, last.user)) >= 1
    /\ \E e \in OwnedBy(last.user) : e.amount < 0

\* C2 (as claimed): for every owner and every label monthlySummary returns,
\* dailySummary(owner, label) succeeds and its day totals add up to the total
\* of that bucket, which is the sum of the owner's amounts in that month.
C2_DailySumsToMonthly ==
    \A o \in UserIds :
        LET monthly == monthlySummary(generateToken(o)).body
            keys == MonthlyPipeline(expenses, o)
        IN  \A i \in 1..Len(monthly) :
                LET r == dailySummary(generateToken(o), Param(monthly[i].label))
                IN  /\ r.status = 200
                    /\ TotalsOf(r.body.days) = monthly[i].total
                    /\ monthly[i].total
                         = AmountsOf(OwnedIn(o, keys[i].key.year, keys[i].key.month))

\* C8: monthlySummary returns exactly one bucket for each (year, month) in
\* which the owner has an expense, in strictly ascending order of year and
\* then month.
C8_OneBucketPerMonthAscending ==
    \A o \in UserIds :
        LET r == monthlySummary(generateToken(o))
            b == MonthlyPipeline(expenses, o)
            months == {<<e.date.year, e.date.month>> : e \in OwnedBy(o)}
        IN  /\ r.status = 200
            /\ Len(r.body) = Len(b)
            /\ Len(b) = Cardinality(months)
            /\ {<<b[i].key.year, b[i].key.month>> : i \in 1..Len(b)} = months
            /\ \A i \in 1..Len(b) : r.body[i].label = FormatLabel(b[i].key)
            /\ \A i, j \in 1..Len(b) :
                  i < j => \/ b[i].key.year < b[j].key.year
                           \/ /\ b[i].key.year = b[j].key.year
                              /\ b[i].key.month < b[j].key.month

\* C8 witness: a monthly summary of two buckets was served, the later month
\* being the smaller month number of a later year.
C8_Witness ==
    /\ last.op = "monthlySummary" /\ last.status = 200
    /\ LET b == MonthlyPipeline(expenses, last.user)
       IN  Len(b) = 2 /\ b[1].key.year < b[2].key.year /\ b[1].key.month > b[2].key.month

\* C9 (as claimed): every label monthlySummary returns is four digits, a
\* hyphen and two digits, and dailySummary accepts it as its month.
C9_LabelsAreValidMonths ==
    \A o \in UserIds :
        LET monthly == monthlySummary(generateToken(o)).body
        IN  \A i \in 1..Len(monthly) :
                LET label == monthly[i].label
                IN  /\ Len(label) = 7
                    /\ \A k \in {1, 2, 3, 4, 6, 7} : label[k] \in DigitSet
                    /\ label[5] = "-"
                    /\ dailySummary(generateToken(o), Param(label)).status # 400

\* The month parameters among the inputs that are absent or are not four
\* digits, a hyphen and two digits.
MalformedMonths ==
    {NoParam, Param(<<>>), Param(<<"2", "0", "2", "4", "-", "1">>),
     Param(<<"2", "0", "2", "4", "/", "0", "1">>),
     Param(<<"9", "9", "9", "-", "1", "2">>)}

\* The store calls of a reply that go to the Expense collection.
ExpenseCalls(r) ==
    {i \in 1..Len(r.calls) :
        r.calls[i] \in {"Expense.save", "Expense.find", "Expense.findById",
                        "Expense.findByIdAndDelete", "Expense.aggregate"}}

\* C3 (as claimed): a dailySummary request of a signed-in user with an absent
\* or malformed month is answered 400 and makes no store call at all.
C3_BadMonthNoStoreAccess ==
    \A o \in UserIds : \A m \in MalformedMonths :
        LET r == dailySummary(generateToken(o), m)
        IN  r.status = 400 /\ r.calls = <<>>

\* C3 (amended): such a request is answered 400, makes no call to the Expense
\* collection and changes nothing; its only store call is the user lookup of
\* the authentication middleware.
C3_BadMonthNoExpenseAccess ==
    \A o \in UserIds : \A m \in MalformedMonths :
        LET r == dailySummary(generateToken(o), m)
        IN  /\ r.status = 400
            /\ ExpenseCalls(r) = {}
            /\ r.calls = <<"User.findById">>
            /\ r.expenses = expenses /\ r.users = users

\* C3 witness: a signed-in user's dailySummary request was answered 400.
C3_Witness ==
    /\ last.op = "dailySummary" /\ last.status = 400 /\ last.user \in UserIds
    /\ OwnedBy(last.user) # {}

\* A signed-in user's delete of an existing expense of another user is
\* answered with an authorization failure and keeps the record.
C4_NonOwnerDeleteRefused ==
    \A o \in UserIds : \A e \in expenses :
        e.user # o =>
            LET r == deleteExpense(generateToken(o), e.id)
            IN  r.status \in {401, 403} /\ e \in r.expenses

\* A record that leaves the store in a step does so in a successful delete
\* request of its owner.
C4_RemovedOnlyByOwner ==
    \A e \in expenses :
        e \notin expenses' =>
            last'.op = "deleteExpense" /\ last'.status = 200 /\ last'.user = e.user

\* C4: a signed-in user's delete of an existing expense of another user is
\* answered with an authorization failure and keeps the record; and in every
\* step a record leaves the store only in a successful delete request of its
\* owner.
C4_DeletedOnlyByOwner == [](C4_NonOwnerDeleteRefused) /\ [][C4_RemovedOnlyByOwner]_vars

\* C4 witness: a delete request of a signed-in user was refused with 401
\* while the store holds a record of another user.
C4_Witness ==
    /\ last.op = "deleteExpense" /\ last.status = 401 /\ last.user \in UserIds
    /\ \E e \in expenses : e.user # last.user

\* The income values among the inputs that are not a non-negative number.
BadIncomes == {Num(-5), Str("300"), Undef}

\* setIncome with a value that is not a non-negative number is answered 400
\* and leaves the User collection; every stored monthlyIncome is non-negative.
C5_BadIncomeRefused ==
    /\ \A o \in UserIds : \A v \in BadIncomes :
          LET r == setIncome(generateToken(o), v)
          IN  r.status = 400 /\ r.users = users
    /\ \A u \in users : u.monthlyIncome >= 0

\* A user's monthlyIncome that changes in a step does so in a successful
\* setIncome request of that user.
C5_IncomeChangedOnlyBySetIncome ==
    \A u \in users : \A v \in users' :
        (v.id = u.id /\ v.monthlyIncome # u.monthlyIncome) =>
            last'.op = "setIncome" /\ last'.status = 200 /\ last'.user = u.id

\* C5: setIncome with a value that is not a non-negative number is answered
\* 400 and leaves the stored income; every stored monthlyIncome is
\* non-negative; and a user's monthlyIncome changes only in a successful
\* setIncome request of that user.
C5_IncomeNonNegative == [](C5_BadIncomeRefused) /\ [][C5_IncomeChangedOnlyBySetIncome]_vars

\* C5 witness: a setIncome request was refused with 400 for a user whose
\* stored income an earlier request had set to a positive value.
C5_Witness ==
    /\ last.op = "setIncome" /\ last.status = 400 /\ last.user \in UserIds
    /\ UserById(last.user).monthlyIncome > 0

\* C6 (as claimed): every stored Expense record has a non-negative amount.
C6_AmountsNonNegative == \A e \in expenses : e.amount >= 0

\* The request bodies among the inputs with a missing required field or a
\* category outside the enumerated set.
MissingOrBadCategory ==
    {b \in MalformedBodies : b.date = NoDate}

\* C7 (as claimed): a create-expense request of a signed-in user with a
\* missing required field or an unknown category is answered 400, before any
\* store call, and the store is unchanged.
C7_MalformedCreateIs400 ==
    \A o \in UserIds : \A b \in MissingOrBadCategory : \A today \in Clock :
        LET r == createExpense(generateToken(o), b, today)
        IN  r.status = 400 /\ r.calls = <<>> /\ r.expenses = expenses

\* What the three queries return for an owner from a collection of documents:
\* the list (its admissible orders), the monthly buckets, and the daily
\* buckets of every well-formed month among the inputs.
C10_Bodies(coll, o) ==
    [list |-> FindSorted(coll, o),
     monthly |-> MonthlyData(coll, o),
     daily |-> [m \in {m \in MonthInputs : m \notin MalformedMonths} |->
                  DailyData(coll, o, m.s)]]

\* What the three routes answer to a signed-in owner.
C10_Results(o) ==
    [list |-> listExpenses(generateToken(o)).body,
     monthly |-> monthlySummary(generateToken(o)).body,
     daily |-> [m \in {m \in MonthInputs : m \notin MalformedMonths} |->
                  dailySummary(generateToken(o), m).body]]

\* The routes answer what the queries return, and the queries return from the
\* whole collection what they return from the owner's records alone.
C10_OwnRecordsDecide ==
    \A o \in UserIds :
        /\ C10_Results(o) = C10_Bodies(expenses, o)
        /\ C10_Bodies(expenses, o) = C10_Bodies(OwnedBy(o), o)

\* A step of a request that does not run as the owner leaves the owner's
\* records as they are.
C10_OthersLeaveResults ==
    \A o \in UserIds : last'.user # o => OwnedBy(o)' = OwnedBy(o)

\* C10: what listing, monthlySummary and dailySummary return to an owner
\* depends only on the records the owner owns, and a step taken by a request
\* of another user (a create or a delete among them) leaves the owner's
\* records, hence those results, unchanged.
C10_ScopedToOwner == [](C10_OwnRecordsDecide) /\ [][C10_OthersLeaveResults]_vars

\* C10 witness: another user's create or delete succeeded while an owner
\* holds a record.
C10_Witness ==
    /\ last.op \in {"createExpense", "deleteExpense"} /\ last.status \in {200, 201}
    /\ \E o \in UserIds : o # last.user /\ OwnedBy(o) # {}

\* ==== the dashboard (frontend/src/components) ==============================
MaxInFlight == 2        \* requests the dashboard has in flight at once

\* ---- inputs of the browser ------------------------------------------------
\* The values new Date() takes in the browser, in order (read as calendar
\* components, as getFullYear and getMonth do).
ClientClock == <<Date(2024, 1, 31), Date(2024, 2, 1)>>
Today == ClientClock[now]

\* The fields of the expense form as the user left them.
TitleFields == {"", "Rent"}
AmountFields == {<<>>, <<"1", "0", "0">>}
DateFields == {NoDate, IsoDate(2024, 1, 20)}

\* What prompt() returns: null, or the text typed.
Cancelled == [def |-> FALSE, s |-> <<>>]
Typed(s) == [def |-> TRUE, s |-> s]
IncomePrompts == {Cancelled, Typed(<<"a">>), Typed(<<"-", "5">>), Typed(<<"1", "0", "0">>)}

\* ---- the balance calculator -------------------------------------------------
\* expenseDate.getFullYear() === currentYear && expenseDate.getMonth() === currentMonth
InCurrentMonth(expense, today) ==
    expense.date.year = today.year /\ expense.date.month = today.month

\* .reduce((total, expense) => total + expense.amount, 0)
RECURSIVE Reduce(_, _)
Reduce(list, n) ==
    IF n = 0 THEN 0 ELSE Reduce(list, n - 1) + list[n].amount

\* The callback of the useMemo of currentMonthTotal, run at time today.
currentMonthTotal(list, today) ==
    LET inMonth == SelectSeq(list, LAMBDA e : InCurrentMonth(e, today))
    IN  Reduce(inMonth, Len(inMonth))

\* A balance that is never shown below zero: Math.max(0, income - total).
availableBalanceClamped(income, total) ==
    IF income - total < 0 THEN 0 ELSE income - total

\* const availableBalance = monthlyIncome - currentMonthTotal
availableBalance(income, total) == income - total

\* className={availableBalance >= 0 ? 'balance-positive' : 'balance-negative'}
BalanceClass(balance) ==
    IF balance >= 0 THEN "balance-positive" ELSE "balance-negative"

\* The balance card of one render at clock position at.
BalanceCard(at, income, total) ==
    [at |-> at, total |-> total, balance |-> availableBalance(income, total),
     class |-> BalanceClass(availableBalance(income, total))]

\* One render of Dashboard with the useState values d.  useMemo runs its
\* callback only when the expenses array is a new one (changed); otherwise
\* it returns the value it holds.
Render(d, changed) ==
    LET total == IF changed THEN currentMonthTotal(d.expenses, Today) ELSE memo
    IN  /\ dashboard' = d
        /\ memo' = total
        /\ shown' = BalanceCard(now, d.monthlyIncome, total)

\* ---- conversions of the form and the prompt ---------------------------------
\* Number(amount) for the text of the number input.
Number(s) == ParseInt(s)

\* date || new Date().toISOString()
DateOrNow(date) == IF date.t = "undefined" THEN [t |-> "date", d |-> Today] ELSE date

\* parseFloat(s) for a prompt text: NaN unless the text starts with an
\* optionally signed run of digits.
ParseFloat(s) ==
    IF s # <<>> /\ \A i \in 1..Len(s) : s[i] \in DigitSet
        THEN [nan |-> FALSE, n |-> ParseInt(s)]
    ELSE IF Len(s) > 1 /\ s[1] = "-" /\ \A i \in 2..Len(s) : s[i] \in DigitSet
        THEN [nan |-> FALSE, n |-> 0 - ParseInt(SubSeq(s, 2, Len(s)))]
    ELSE [nan |-> TRUE, n |-> 0]

\* ---- requests in flight ---------------------------------------------------
\* A response not yet there, and one that is.
Pending == [status |-> 0, data |-> <<>>]
Response(status, data) == [status |-> status, data |-> data]

\* A call of api.get/post/delete: what it carries (arg), what its
\* continuation captured of the render it was called from (closure), and
\* the response.  fetchAllData awaits three responses at once.
Request(kind, arg, closure) ==
    [kind |-> kind, arg |-> arg, closure |-> closure, res |-> Pending]
FetchRequest(closure) ==
    [kind |-> "fetch", arg |-> <<>>, closure |-> closure,
     res |-> [exp |-> Pending, mon |-> Pending, inc |-> Pending]]

Answered(i, res) == [requests EXCEPT ![i].res = res]
Without(i) == SubSeq(requests, 1, i - 1) \o SubSeq(requests, i + 1, Len(requests))
Waiting(kind) ==
    {i \in DOMAIN requests : requests[i].kind = kind /\ requests[i].res.status = 0}
Arrived(kind) ==
    {i \in DOMAIN requests : requests[i].kind = kind /\ requests[i].res.status # 0}
Mounted == token # NoToken

\* ---- the browser's steps ----------------------------------------------------
\* LoginPage.handleSubmit, and what follows a successful login: the token is
\* stored, App mounts Dashboard for it, Dashboard renders its initial state
\* and its effect calls fetchAllData, which sends its three GETs.
MountDashboard ==
    /\ ~Mounted
    /\ \E email \in Emails, password \in Passwords :
          LET r == login(email, password)
          IN  /\ Effect("login", r)
              /\ IF r.status = 200
                 THEN /\ token' = r.body[1]
                      /\ Render(NotMounted, TRUE)
                      /\ requests' = <<FetchRequest(NotMounted.selectedMonth)>>
                      /\ UNCHANGED now
                 ELSE UNCHANGED client

\* Time passes in the browser.
Tick ==
    /\ now < Len(ClientClock)
    /\ now' = now + 1
    /\ UNCHANGED <<server, token, dashboard, memo, shown, requests>>

\* A render that no change of expenses caused: the user types into the form
\* (setTitle, setAmount, setCategory, setDate).
Rerender ==
    /\ Mounted
    /\ Render(dashboard, FALSE)
    /\ UNCHANGED <<server, token, now, requests>>

\* addExpense up to its await: the guard on the form, and the POST.  The
\* continuation keeps the expenses of the render the handler belongs to.
AddExpenseSubmit ==
    /\ Mounted
    /\ Len(requests) < MaxInFlight
    /\ nextId + Cardinality(Waiting("add")) < MaxExpenses
    /\ \E title \in TitleFields, amount \in AmountFields, date \in DateFields :
          LET body == [title |-> Str(title), amount |-> Num(Number(amount)),
                       category |-> Str("Other"), date |-> DateOrNow(date)]
          IN  IF title = "" \/ amount = <<>>
              THEN UNCHANGED vars
              ELSE /\ requests' = Append(requests, Request("add", body, dashboard.expenses))
                   /\ UNCHANGED <<server, token, dashboard, memo, now, shown>>

\* addExpense after its await: setExpenses([res.data, ...expenses]), or the
\* alert of the catch.
AddExpenseResume ==
    \E i \in Arrived("add") :
        LET req == requests[i]
        IN  /\ requests' = Without(i)
            /\ IF req.res.status = 201
               THEN Render([dashboard EXCEPT !.expenses = <<req.res.data[1]>> \o req.closure],
                           TRUE)
               ELSE UNCHANGED <<dashboard, memo, shown>>
            /\ UNCHANGED <<server, token, now>>

\* deleteExpense up to its await: window.confirm, and the DELETE.
DeleteExpenseClick ==
    /\ Mounted
    /\ Len(requests) < MaxInFlight
    /\ \E k \in DOMAIN dashboard.expenses, confirmed \in BOOLEAN :
          IF ~confirmed
          THEN UNCHANGED vars
          ELSE /\ requests' = Append(requests, Request("delete", dashboard.expenses[k].id, <<>>))
               /\ UNCHANGED <<server, token, dashboard, memo, now, shown>>

\* deleteExpense after its await: the functional update of expenses, or the
\* alert of the catch.
DeleteExpenseResume ==
    \E i \in Arrived("delete") :
        LET req == requests[i]
        IN  /\ requests' = Without(i)
            /\ IF req.res.status = 200
               THEN Render([dashboard EXCEPT
                               !.expenses = SelectSeq(@, LAMBDA e : e.id # req.arg)], TRUE)
               ELSE UNCHANGED <<dashboard, memo, shown>>
            /\ UNCHANGED <<server, token, now>>

\* handleSetIncome up to its await: the prompt, parseFloat, the check of the
\* number, and the POST.
HandleSetIncomeClick ==
    /\ Mounted
    /\ Len(requests) < MaxInFlight
    /\ \E incomeInput \in IncomePrompts :
          LET newIncome == ParseFloat(incomeInput.s)
          IN  IF ~incomeInput.def \/ newIncome.nan \/ newIncome.n < 0
              THEN UNCHANGED vars
              ELSE /\ requests' = Append(requests, Request("income", Num(newIncome.n), <<>>))
                   /\ UNCHANGED <<server, token, dashboard, memo, now, shown>>

\* handleSetIncome after its await: setMonthlyIncome(res.data.monthlyIncome).
HandleSetIncomeResume ==
    \E i \in Arrived("income") :
        LET req == requests[i]
        IN  /\ requests' = Without(i)
            /\ IF req.res.status = 200
               THEN Render([dashboard EXCEPT !.monthlyIncome = req.res.data[1]], FALSE)
               ELSE UNCHANGED <<dashboard, memo, shown>>
            /\ UNCHANGED <<server, token, now>>

\* fetchAllData after Promise.all: the three setters, and for a first
\* summary that is not empty the selection of its last month and the GET of
\* that month's days.  A rejected GET ends in the catch: a 401 logs out.
FetchAllDataResume ==
    \E i \in DOMAIN requests :
        /\ requests[i].kind = "fetch"
        /\ LET res == requests[i].res
               summary == res.mon.data
               follow == Len(summary) > 0 /\ requests[i].closure = <<>>
               lastMonthLabel == summary[Len(summary)].label
           IN  /\ res.exp.status # 0 /\ res.mon.status # 0 /\ res.inc.status # 0
               /\ IF res.exp.status = 200 /\ res.mon.status = 200 /\ res.inc.status = 200
                  THEN /\ Render([dashboard EXCEPT
                                     !.expenses = res.exp.data,
                                     !.monthlyIncome = res.inc.data[1],
                                     !.monthlyData = summary,
                                     !.selectedMonth = IF follow THEN lastMonthLabel ELSE @],
                                 TRUE)
                       /\ requests' =
                             IF follow
                             THEN Append(Without(i), Request("daily", Param(lastMonthLabel), <<>>))
                             ELSE Without(i)
                       /\ UNCHANGED token
                  ELSE /\ token' = NoToken
                       /\ requests' = <<>>
                       /\ dashboard' = NotMounted
                       /\ UNCHANGED <<memo, shown>>
        /\ UNCHANGED <<server, now>>

\* fetchAllData after the GET of the days: setDailyData(dayRes.data?.days || []).
FetchDailyResume ==
    \E i \in Arrived("daily") :
        LET req == requests[i]
        IN  /\ requests' = Without(i)
            /\ IF req.res.status = 200
               THEN Render([dashboard EXCEPT !.dailyData = req.res.data.days], FALSE)
               ELSE UNCHANGED <<dashboard, memo, shown>>
            /\ UNCHANGED <<server, token, now>>

\* ---- the server's steps for the dashboard's requests ------------------------
\* A request of the dashboard reaches its route; the reply travels back.
ServeCreate ==
    \E i \in Waiting("add"), today \in Clock :
        LET r == createExpense(token, requests[i].arg, today)
        IN  /\ Effect("createExpense", r)
            /\ requests' = Answered(i, Response(r.status, r.body))
            /\ UNCHANGED <<token, dashboard, memo, now, shown>>

ServeDelete ==
    \E i \in Waiting("delete") :
        LET r == deleteExpense(token, requests[i].arg)
        IN  /\ Effect("deleteExpense", r)
            /\ requests' = Answered(i, Response(r.status, r.body))
            /\ UNCHANGED <<token, dashboard, memo, now, shown>>

ServeSetIncome ==
    \E i \in Waiting("income") :
        LET r == setIncome(token, requests[i].arg)
        IN  /\ Effect("setIncome", r)
            /\ requests' = Answered(i, Response(r.status, r.body))
            /\ UNCHANGED <<token, dashboard, memo, now, shown>>

ServeDaily ==
    \E i \in Waiting("daily") :
        LET r == dailySummary(token, requests[i].arg)
        IN  /\ Effect("dailySummary", r)
            /\ requests' = Answered(i, Response(r.status, r.body))
            /\ UNCHANGED <<token, dashboard, memo, now, shown>>

\* The three GETs of fetchAllData are served one by one, in any order.
ServeList ==
    \E i \in DOMAIN requests :
        /\ requests[i].kind = "fetch" /\ requests[i].res.exp.status = 0
        /\ LET r == listExpenses(token)
           IN  /\ Effect("listExpenses", r)
               /\ IF r.status = 200
                  THEN \E list \in r.body :
                          requests' = [requests EXCEPT ![i].res.exp = Response(200, list)]
                  ELSE requests' = [requests EXCEPT ![i].res.exp = Response(r.status, <<>>)]
        /\ UNCHANGED <<token, dashboard, memo, now, shown>>

ServeMonthly ==
    \E i \in DOMAIN requests :
        /\ requests[i].kind = "fetch" /\ requests[i].res.mon.status = 0
        /\ LET r == monthlySummary(token)
           IN  /\ Effect("monthlySummary", r)
               /\ requests' = [requests EXCEPT ![i].res.mon = Response(r.status, r.body)]
        /\ UNCHANGED <<token, dashboard, memo, now, shown>>

ServeGetIncome ==
    \E i \in DOMAIN requests :
        /\ requests[i].kind = "fetch" /\ requests[i].res.inc.status = 0
        /\ LET r == getIncome(token)
           IN  /\ Effect("getIncome", r)
               /\ requests' = [requests EXCEPT ![i].res.inc = Response(r.status, r.body)]
        /\ UNCHANGED <<token, dashboard, memo, now, shown>>

\* The user of the dashboard registers (the requests of other users are
\* those of Spec).
SignUp == users = {} /\ Register

\* One user's dashboard and the server behind it.
NextDashboard ==
    \/ SignUp
    \/ MountDashboard
    \/ Tick
    \/ Rerender
    \/ AddExpenseSubmit
    \/ AddExpenseResume
    \/ DeleteExpenseClick
    \/ DeleteExpenseResume
    \/ HandleSetIncomeClick
    \/ HandleSetIncomeResume
    \/ FetchAllDataResume
    \/ FetchDailyResume
    \/ ServeCreate
    \/ ServeDelete
    \/ ServeSetIncome
    \/ ServeDaily
    \/ ServeList
    \/ ServeMonthly
    \/ ServeGetIncome

SpecDashboard == Init /\ [][NextDashboard]_vars

\* ---- what the dashboard's claims speak of -----------------------------------
\* The sum of the amounts of the first n expenses of a list that are dated in
\* the calendar year and month of today.
RECURSIVE SpentInMonth(_, _, _)
SpentInMonth(list, n, today) ==
    IF n = 0 THEN 0
    ELSE SpentInMonth(list, n - 1, today)
            + (IF list[n].date.year = today.year /\ list[n].date.month = today.month
               THEN list[n].amount ELSE 0)

\* C11: the currentMonthTotal that a render of the dashboard displays is the
\* sum of the amounts of the expenses of the list that are dated in the year
\* and month the browser clock shows at that render, whatever changes of the
\* list and advances of the clock came before it.
C11_TotalIsOfCurrentMonth ==
    Mounted =>
        shown.total = SpentInMonth(dashboard.expenses, Len(dashboard.expenses),
                                   ClientClock[shown.at])

\* ---- the balance card over a range of incomes and totals --------------------
MaxAmount == 10         \* largest income and largest amount drawn

\* A dashboard at rest: its user has registered and set an income, has added
\* no expense or one expense dated today, and every response has arrived.
BalanceUser(income) ==
    [id |-> 1, name |-> "n", email |-> "ann@x", password |-> Hash("pw"),
     monthlyIncome |-> income]
BalanceExpense(amount) ==
    [id |-> 1, user |-> 1, title |-> "Rent", amount |-> amount, category |-> "Other",
     date |-> ClientClock[1]]
BalanceLists == {<<>>} \cup {<<BalanceExpense(a)>> : a \in 1..MaxAmount}

InitBalance ==
    \E income \in 0..MaxAmount, list \in BalanceLists :
        /\ users = {BalanceUser(income)}
        /\ expenses = {list[k] : k \in DOMAIN list}
        /\ nextId = Len(list)
        /\ last = NoRequest
        /\ token = generateToken(1)
        /\ dashboard = [NotMounted EXCEPT !.expenses = list, !.monthlyIncome = income]
        /\ memo = currentMonthTotal(list, ClientClock[1])
        /\ now = 1
        /\ shown = BalanceCard(1, income, currentMonthTotal(list, ClientClock[1]))
        /\ requests = <<>>

NextBalance ==
    \/ Rerender
    \/ Tick

SpecBalance == InitBalance /\ [][NextBalance]_vars

\* C12: the available balance of the balance card is the income minus the
\* total spent, unclamped: it is negative exactly when the total exceeds the
\* income and zero exactly when the two are equal, and the card is in its
\* negative display state exactly when the balance is negative.
C12_BalanceSignDecidesDisplay ==
    Mounted =>
        LET income == dashboard.monthlyIncome
            spent == shown.total
        IN  /\ (shown.balance < 0) <=> (spent > income)
            /\ (shown.balance = 0) <=> (spent = income)
            /\ shown.balance = income - spent
            /\ (shown.class = "balance-negative") <=> (shown.balance < 0)

\* A card rendered after the clock moved, for a user who has an income and
\* has spent more than it.
C12_Witness ==
    /\ Mounted
    /\ shown.at = 2
    /\ dashboard.monthlyIncome > 0
    /\ shown.total > dashboard.monthlyIncome
    /\ shown.class = "balance-negative"

\* The expenses the dashboard lists.
Listed == {dashboard.expenses[k] : k \in DOMAIN dashboard.expenses}

\* C13: when the dashboard has no request in flight (the initial
\* fetchAllData and every addExpense and deleteExpense call have completed,
\* in whatever order), its list holds exactly the expenses the store holds
\* for its user, each once: none that was created is missing and none that
\* was deleted remains.
C13_ListIsStoreWhenIdle ==
    (Mounted /\ requests = <<>>) =>
        /\ Listed = OwnedBy(token.id)
        /\ Len(dashboard.expenses) = Cardinality(Listed)
====
